---- MODULE Spec2Model ----
(***************************************************************************)
(* Operation backup and restore engine of neutrons-optimizer:              *)
(* core/safety/backup.py (BackupManager), core/safety/restore.py           *)
(* (RestoreManager), with the OS collaborators they call                   *)
(* (core/system/registry.py, core/system/services.py, powercfg).           *)
(*                                                                         *)
(* The backup root is modelled as two stores of files with modification    *)
(* times: the ledger documents (<backup_id>_info.json) and the blobs       *)
(* (registry exports, file copies, directory archives).  The live system   *)
(* is one registry key, files, one directory tree, services, the active    *)
(* power plan and the auto-run entries.                                    *)
(***************************************************************************)
EXTENDS Integers, Sequences, FiniteSets, TLC

\* ------------------------------------------------------------------ bounds
\* the clock runs from second 1 to MaxClock (second 0: before the program ran)
MaxClock == 2
\* entries of one ledger document
MaxEntries == 2
\* calls and changes of one scenario (Spec / SpecLedger)
MaxSteps == 5
MaxLedgerSteps == 4
\* calls and changes of one scenario (SpecPaths)
MaxPathSteps == 5

\* ------------------------------------------------------- program constants
SecondsPerDay == 86400

\* --------------------------------------------------------------- universes
OpNames == {"opA"}
Times == 0..MaxClock
IdSpace == [op : OpNames, ts : 1..MaxClock]
NoId == [op |-> "none", ts |-> 0]

RegKeys == {"HKCU_Key"}
RegValues == {1, 2}
FileContents == {1, 2}
F1 == <<"c", "/", "a">>
FilePaths == {F1}
\* a second file, whose path differs from F1 in a separator only
F2 == <<"c", "_", "a">>
AllFilePaths == {F1, F2}
D1 == <<"c", "/", "d">>
DirPaths == {D1}
Children == {"x", "y"}
Services == {"svcA"}
ServiceState == {"STOPPED", "RUNNING", "PAUSED", "UNKNOWN"}
Plans == {"Balanced", "High performance", "Ultimate Performance"}
StartupNames == {"runA"}
StartupValues == {1}
DaysInputs == {0, 1}

Absent == 0
\* an entry of a directory that is an empty subdirectory, not a file
EmptySubdir == 3
\* what can sit at a relative path of a directory
TreeValues == FileContents \cup {Absent, EmptySubdir}

\* ------------------------------------------------------------ JSON values
\* A section value is a JSON list or a JSON dict (kept as the sequence of
\* its items in insertion order), or the key is missing from the document.
JList(s) == [t |-> "list", v |-> s]
JDict(s) == [t |-> "dict", v |-> s]
Missing == [t |-> "missing", v |-> <<>>]
SectionKeys == {"registry_backups", "file_backups", "service_states",
                "power_settings", "startup_items"}

\* Python truthiness of a section value: backup_info.get(section)
Truthy(sec) == sec.t # "missing" /\ Len(sec.v) > 0


VARIABLES
    clock,      \* seconds, datetime.now()
    ledger,     \* backup_id -> ledger document file
    blobs,      \* blob path -> blob file
    reg,        \* live registry: key -> value or Absent
    files,      \* live files: path -> content (Absent: no file)
    dirs,       \* live directories: path -> [exists, tree]
    svc,        \* live services: name -> run state
    power,      \* active power plan
    startup,    \* live auto-run entries: name -> value or Absent
    last,       \* the last call of the engine and its outcome
    steps,      \* calls and changes so far
    pruned,     \* backup_ids whose ledger file cleanup_old_backups removed
    pending,    \* caller -> its _update_backup_info call between load and save
    opt,        \* the optimization object: status, backup_id
    workers,    \* worker id -> OptimizationWorker thread
    current_worker, \* MainWindow.current_worker: a worker id, or NoWorker
    restoring   \* the call of restore_operation under way, entry by entry

vars == <<clock, ledger, blobs, reg, files, dirs, svc, power, startup, last, steps,
          pruned, pending, opt, workers, current_worker, restoring>>
\* the state of the application above the backup engine
app == <<pending, opt, workers, current_worker>>
live == <<reg, files, dirs, svc, power, startup>>

\* ---------------------------------------------------------------- helpers
\* str(source).replace(":", "_").replace("\\", "_").replace("/", "_")
SafeName(p) == [i \in DOMAIN p |->
                  IF p[i] \in {":", "\\", "/"} THEN "_" ELSE p[i]]

\* create_operation_backup's document
NewBackupInfo(name, ts) ==
    [operation |-> name, timestamp |-> ts, backup_id |-> [op |-> name, ts |-> ts],
     registry_backups |-> JList(<<>>),
     file_backups |-> JList(<<>>),
     service_states |-> JDict(<<>>),
     power_settings |-> JDict(<<>>),
     startup_items |-> JList(<<>>)]

\* the document _update_backup_info starts from when the file does not exist
EmptyInfo ==
    [operation |-> "none", timestamp |-> 0, backup_id |-> NoId,
     registry_backups |-> Missing,
     file_backups |-> Missing,
     service_states |-> Missing,
     power_settings |-> Missing,
     startup_items |-> Missing]

\* The files <backup_id>_info.json of the backup root: a JSON document, a file
\* json.load rejects (a write that failed after open() truncated it), or no file
DocFile(info, mtime) == [exists |-> TRUE, valid |-> TRUE, info |-> info, mtime |-> mtime]
CorruptFile(mtime) == [exists |-> TRUE, valid |-> FALSE, info |-> EmptyInfo, mtime |-> mtime]
NoFile == [exists |-> FALSE, valid |-> FALSE, info |-> EmptyInfo, mtime |-> 0]

IsDoc(f) == f.exists /\ f.valid

\* How an attempt to write a ledger document ends: written; open() raises and
\* the file is untouched; or the write raises after open() truncated the file
IoOutcomes == {"ok", "deny", "trunc"}

WriteDoc(old, info, io) ==
    CASE io = "ok" -> DocFile(info, clock)
      [] io = "deny" -> old
      [] OTHER -> CorruptFile(clock)

\* Blob paths: registry/<hkey>_<subkey>_<timestamp>.reg and
\* files/<backup_id>_<safe_name>[.zip]
RegBlobPath(key, ts) == [kind |-> "reg", key |-> key, id |-> NoId, ts |-> ts, name |-> <<>>]
FileBlobPath(id, p) == [kind |-> "file", key |-> "-", id |-> id, ts |-> 0, name |-> SafeName(p)]
ZipBlobPath(id, p) ==
    [kind |-> "file", key |-> "-", id |-> id, ts |-> 0, name |-> SafeName(p) \o <<".zip">>]

BlobExists(path) == path \in DOMAIN blobs

PutBlob(b, path, content, mtime) ==
    [q \in DOMAIN b \cup {path} |->
        IF q = path THEN [content |-> content, mtime |-> mtime] ELSE b[q]]

\* ------------------------------------------------- BackupManager: ledger
\* json values of the entries
Entry(rec) == JDict(<<rec>>)

\* backup_info[section][key] = data on a dict kept in insertion order
Upsert(items, key, data) ==
    IF \E i \in DOMAIN items : items[i].key = key
    THEN [i \in DOMAIN items |->
            IF items[i].key = key THEN [key |-> key, val |-> data] ELSE items[i]]
    ELSE Append(items, [key |-> key, val |-> data])

\* _update_backup_info that writes a document holding the updated section only
UpdatedInfoSectionOnly(info, section, data, key) ==
    LET cur == IF info[section].t = "list" THEN info[section] ELSE JList(<<>>)
    IN [EmptyInfo EXCEPT ![section] = JList(Append(cur.v, data))]

\* _update_backup_info, "Atualizar seção": key = "" stands for key=None
UpdatedInfo(info, section, data, key) ==
    IF key # ""
    THEN LET cur == IF info[section].t = "missing" THEN JDict(<<>>) ELSE info[section]
         IN [info EXCEPT ![section] = JDict(Upsert(cur.v, key, data))]
    ELSE LET cur == IF info[section].t = "missing" THEN JList(<<>>) ELSE info[section]
         IN IF cur.t = "list"
            THEN [info EXCEPT ![section] = JList(Append(cur.v, data))]
            ELSE [info EXCEPT ![section] = data]

\* _update_backup_info: the ledger file after the call.  Every exception (a
\* document json.load rejects, a failed write) is logged and swallowed.
update_backup_info(old, section, data, key, io) ==
    IF old.exists /\ ~old.valid
    THEN old
    ELSE WriteDoc(old, UpdatedInfo(IF old.exists THEN old.info ELSE EmptyInfo,
                                   section, data, key), io)

\* get_backup_info answering with an empty document where there is no file
HasInfoOrEmpty(id) == id \in IdSpace

\* get_backup_info: the document, or None (no file, or a file json.load rejects)
HasInfo(id) == id \in IdSpace /\ IsDoc(ledger[id])

\* number of entries of a document (all sections)
EntryCount(info) ==
    Len(info.registry_backups.v) + Len(info.file_backups.v)
      + Len(info.service_states.v) + Len(info.power_settings.v)
      + Len(info.startup_items.v)

\* The outcome of a call of the engine, as its caller sees it: the value
\* returned, whether an exception left the call, how the ledger write ended
\* ("none": no write was tried) and, for restore_operation, the restore steps
\* taken in order and the OS failures injected.
Outcome(op, id, result, raised, wrote, attempts, osfail) ==
    [op |-> op, id |-> id, result |-> result, raised |-> raised, wrote |-> wrote,
     attempts |-> attempts, osfail |-> osfail]

\* a step that is no call of the engine, or a call with nothing to report
Quiet(op) == Outcome(op, NoId, "None", FALSE, "none", <<>>, {})

\* how the ledger write of a capture ended; no write is tried when the
\* document on disk cannot be loaded
Wrote(old, io) == IF old.exists /\ ~old.valid THEN "none" ELSE io

\* the model's cap on the entries of one document
Fits(f) == ~IsDoc(f) \/ EntryCount(f.info) <= MaxEntries

\* -------------------------------------------------------------- the clock
Tick ==
    /\ clock < MaxClock
    /\ clock' = clock + 1
    /\ last' = Quiet("tick")
    /\ UNCHANGED <<ledger, blobs, reg, files, dirs, svc, power, startup>>

\* ------------------------------------------------------ application state
\* a registry key that exists and holds no value (after DeleteValue)
EmptyKey == 3

\* the threads that may be inside _update_backup_info at once
Callers == {1, 2}
\* no call under way; otherwise the document loaded and the entry to append
NoCall == [busy |-> FALSE, id |-> NoId, section |-> "none", data |-> JDict(<<>>),
           loaded |-> NoFile]

\* OptimizationStatus
OptimizationStatus == {"NOT_APPLIED", "APPLIED", "SIMULATED", "ERROR", "PARTIAL"}
\* the operations a worker runs
Operations == {"simulate", "apply", "revert"}

\* the OptimizationWorker objects the window may create
MaxWorkers == 3
WorkerIds == 1..MaxWorkers
NoWorker == 0
\* a worker: not created yet, running its operation, past finished.emit
\* with the thread still alive, or with the thread ended; `handled` tells
\* whether the queued finished signal has reached _on_worker_finished
NotStarted == [state |-> "none", operation |-> "none", success |-> FALSE,
               calls |-> <<>>, handled |-> FALSE]

\* ------------------------------------------------ BackupManager: captures
\* create_operation_backup with the timestamp taken at a coarser resolution
\* than the second: every call of the scenario falls in the same stamp
create_operation_backup_coarse(name, io) ==
    LET id == [op |-> name, ts |-> 1]
    IN /\ ledger' = [ledger EXCEPT ![id] = WriteDoc(@, NewBackupInfo(name, 1), io)]
       /\ last' = Outcome("create_operation_backup", id,
                           IF io = "ok" THEN "id" ELSE "raise", io # "ok", io, <<>>, {})
       /\ UNCHANGED <<clock, blobs, reg, files, dirs, svc, power, startup>>

\* create_operation_backup: no try/except, so a failed write leaves the call
\* as an exception.  The id f"{operation_name}_{timestamp}" is kept as the
\* pair (name, second): the timestamp has a fixed width, so the string
\* determines both parts.
create_operation_backup(name, io) ==
    LET id == [op |-> name, ts |-> clock]
    IN /\ ledger' = [ledger EXCEPT ![id] = WriteDoc(@, NewBackupInfo(name, clock), io)]
       /\ last' = Outcome("create_operation_backup", id,
                           IF io = "ok" THEN "id" ELSE "raise", io # "ok", io, <<>>, {})
       /\ UNCHANGED <<clock, blobs, reg, files, dirs, svc, power, startup>>

backup_registry_key(id, key, io) ==
    IF reg[key] # Absent
    THEN LET path == RegBlobPath(key, clock)
             f == update_backup_info(ledger[id], "registry_backups",
                                     Entry([subkey |-> key, backup_path |-> path]), "", io)
         IN /\ Fits(f)
            /\ blobs' = PutBlob(blobs, path, reg[key], clock)
            /\ ledger' = [ledger EXCEPT ![id] = f]
            /\ last' = Outcome("backup_registry_key", id, "True", FALSE, Wrote(ledger[id], io), <<>>, {})
            /\ UNCHANGED <<clock, reg, files, dirs, svc, power, startup>>
    ELSE /\ io = "ok"
         /\ last' = Outcome("backup_registry_key", id, "False", FALSE, "none", <<>>, {})
         /\ UNCHANGED <<clock, ledger, blobs, reg, files, dirs, svc, power, startup>>

\* backup_file that records an entry for a missing file, with no blob behind it
backup_file_recording_missing(id, p, io, mt) ==
    LET path == FileBlobPath(id, p)
        f == update_backup_info(ledger[id], "file_backups",
                Entry([original_path |-> p, backup_path |-> path, type |-> "file"]),
                "", io)
    IN /\ Fits(f)
       /\ blobs' = IF files[p] # Absent THEN PutBlob(blobs, path, files[p], mt) ELSE blobs
       /\ ledger' = [ledger EXCEPT ![id] = f]
       /\ last' = Outcome("backup_file", id, "True", FALSE, Wrote(ledger[id], io), <<>>, {})
       /\ UNCHANGED <<clock, reg, files, dirs, svc, power, startup>>

\* shutil.copy2 keeps the source's modification time mt, which is any time up to
\* now (the scenarios take a file from before the program ran, or just written)
backup_file(id, p, io, mt) ==
    IF files[p] # Absent
    THEN LET path == FileBlobPath(id, p)
             f == update_backup_info(ledger[id], "file_backups",
                     Entry([original_path |-> p, backup_path |-> path, type |-> "file"]),
                     "", io)
         IN /\ Fits(f)
            /\ blobs' = PutBlob(blobs, path, files[p], mt)
            /\ ledger' = [ledger EXCEPT ![id] = f]
            /\ last' = Outcome("backup_file", id, "True", FALSE, Wrote(ledger[id], io), <<>>, {})
            /\ UNCHANGED <<clock, reg, files, dirs, svc, power, startup>>
    ELSE /\ io = "ok" /\ mt = 0
         /\ last' = Outcome("backup_file", id, "True", FALSE, "none", <<>>, {})
         /\ UNCHANGED <<clock, ledger, blobs, reg, files, dirs, svc, power, startup>>

\* the archive of a directory: zipf.write for every path of source.rglob('*')
\* that is_file()
Zipped(tree) == [c \in DOMAIN tree |-> IF tree[c] \in FileContents THEN tree[c] ELSE Absent]

backup_directory(id, d, io) ==
    IF dirs[d].exists
    THEN LET path == ZipBlobPath(id, d)
             f == update_backup_info(ledger[id], "file_backups",
                     Entry([original_path |-> d, backup_path |-> path,
                            type |-> "directory_zip"]), "", io)
         IN /\ Fits(f)
            /\ blobs' = PutBlob(blobs, path, Zipped(dirs[d].tree), clock)
            /\ ledger' = [ledger EXCEPT ![id] = f]
            /\ last' = Outcome("backup_directory", id, "True", FALSE, Wrote(ledger[id], io), <<>>, {})
            /\ UNCHANGED <<clock, reg, files, dirs, svc, power, startup>>
    ELSE /\ io = "ok"
         /\ last' = Outcome("backup_directory", id, "True", FALSE, "none", <<>>, {})
         /\ UNCHANGED <<clock, ledger, blobs, reg, files, dirs, svc, power, startup>>

backup_service_state(id, s, io) ==
    LET f == update_backup_info(ledger[id], "service_states",
                                Entry([name |-> s, state |-> svc[s]]), s, io)
    IN /\ Fits(f)
       /\ ledger' = [ledger EXCEPT ![id] = f]
       /\ last' = Outcome("backup_service_state", id, "True", FALSE, Wrote(ledger[id], io), <<>>, {})
       /\ UNCHANGED <<clock, blobs, reg, files, dirs, svc, power, startup>>

\* shellok: whether the PowerShell query of the active plan succeeded
backup_power_plan(id, shellok, io) ==
    IF shellok
    THEN LET f == update_backup_info(ledger[id], "power_settings",
                                     Entry([output |-> power, timestamp |-> clock]), "", io)
         IN /\ Fits(f)
            /\ ledger' = [ledger EXCEPT ![id] = f]
            /\ last' = Outcome("backup_power_plan", id, "True", FALSE, Wrote(ledger[id], io), <<>>, {})
            /\ UNCHANGED <<clock, blobs, reg, files, dirs, svc, power, startup>>
    ELSE /\ io = "ok"
         /\ last' = Outcome("backup_power_plan", id, "False", FALSE, "none", <<>>, {})
         /\ UNCHANGED <<clock, ledger, blobs, reg, files, dirs, svc, power, startup>>

\* registry.enumerate_values over the auto-run locations, as a list of items
RECURSIVE StartupItemsOf(_)
StartupItemsOf(names) ==
    IF names = {} THEN <<>>
    ELSE LET n == CHOOSE x \in names : TRUE
             rest == StartupItemsOf(names \ {n})
         IN IF startup[n] # Absent
            THEN <<Entry([hkey |-> "HKCU", name |-> n, value |-> startup[n],
                          type |-> "registry"])>> \o rest
            ELSE rest

backup_startup_items(id, io) ==
    LET f == update_backup_info(ledger[id], "startup_items",
                                JList(StartupItemsOf(StartupNames)), "", io)
    IN /\ Fits(f)
       /\ ledger' = [ledger EXCEPT ![id] = f]
       /\ last' = Outcome("backup_startup_items", id, "True", FALSE, Wrote(ledger[id], io), <<>>, {})
       /\ UNCHANGED <<clock, blobs, reg, files, dirs, svc, power, startup>>

\* ------------------------------------- RegistryManager: write and delete
\* registry.backup_key as write_value and delete_value call it: reg export
\* into <hkey>_<subkey>_<timestamp>.reg with /y; no blob for a missing key
AutoBackup(key) ==
    IF reg[key] # Absent THEN PutBlob(blobs, RegBlobPath(key, clock), reg[key], clock)
    ELSE blobs

\* write_value: automatic backup, then CreateKey and SetValueEx; when these
\* raise (osok false) the backup just taken is imported again
write_value(key, v, osok) ==
    /\ blobs' = AutoBackup(key)
    /\ reg' = IF osok THEN [reg EXCEPT ![key] = v] ELSE reg
    /\ last' = Outcome("write_value", NoId, IF osok THEN "True" ELSE "False",
                        FALSE, "none", <<>>, {})
    /\ UNCHANGED <<clock, ledger, files, dirs, svc, power, startup>>

\* delete_value: automatic backup, then OpenKey and DeleteValue; a missing
\* key or value counts as success
delete_value(key, osok) ==
    /\ blobs' = AutoBackup(key)
    /\ reg' = IF osok /\ reg[key] \notin {Absent, EmptyKey}
              THEN [reg EXCEPT ![key] = EmptyKey] ELSE reg
    /\ last' = Outcome("delete_value", NoId,
                        IF osok \/ reg[key] \in {Absent, EmptyKey} THEN "True" ELSE "False",
                        FALSE, "none", <<>>, {})
    /\ UNCHANGED <<clock, ledger, files, dirs, svc, power, startup>>

\* --------------------------- _update_backup_info, step by step
\* A capture run by caller c up to the point where _update_backup_info has
\* loaded the document (or found no file) and has not yet saved it: the blob
\* is written, the document as loaded and the entry to append are kept.
BeginUpdate(c, id, section, data) ==
    /\ ~pending[c].busy
    /\ pending' = [pending EXCEPT ![c] =
                      [busy |-> TRUE, id |-> id, section |-> section, data |-> data,
                       loaded |-> ledger[id]]]
    /\ last' = Quiet("_update_backup_info")
    /\ UNCHANGED <<clock, ledger, reg, files, dirs, svc, power, startup,
                   pruned, opt, workers, current_worker>>

backup_registry_key_load(c, id, key) ==
    /\ reg[key] # Absent
    /\ blobs' = PutBlob(blobs, RegBlobPath(key, clock), reg[key], clock)
    /\ BeginUpdate(c, id, "registry_backups",
                   Entry([subkey |-> key, backup_path |-> RegBlobPath(key, clock)]))

backup_file_load(c, id, p) ==
    /\ files[p] # Absent
    /\ blobs' = PutBlob(blobs, FileBlobPath(id, p), files[p], clock)
    /\ BeginUpdate(c, id, "file_backups",
                   Entry([original_path |-> p, backup_path |-> FileBlobPath(id, p),
                          type |-> "file"]))

\* _update_backup_info that holds a lock from load to save: the section is
\* updated in the document as it is on disk at the save
update_backup_info_save_locked(c) ==
    /\ pending[c].busy
    /\ LET f == update_backup_info(ledger[pending[c].id], pending[c].section,
                                    pending[c].data, "", "ok")
       IN /\ Fits(f)
          /\ ledger' = [ledger EXCEPT ![pending[c].id] = f]
    /\ pending' = [pending EXCEPT ![c] = NoCall]
    /\ last' = Outcome("_update_backup_info", pending[c].id, "None", FALSE, "ok", <<>>, {})
    /\ UNCHANGED <<clock, blobs, reg, files, dirs, svc, power, startup,
                   pruned, opt, workers, current_worker>>

\* The rest of the call of caller c: the section is updated in the document
\* that was loaded, and the file is overwritten with it.
update_backup_info_save(c) ==
    /\ pending[c].busy
    /\ LET f == update_backup_info(pending[c].loaded, pending[c].section,
                                    pending[c].data, "", "ok")
       IN /\ Fits(f)
          /\ ledger' = [ledger EXCEPT ![pending[c].id] = f]
    /\ pending' = [pending EXCEPT ![c] = NoCall]
    /\ last' = Outcome("_update_backup_info", pending[c].id, "None", FALSE, "ok", <<>>, {})
    /\ UNCHANGED <<clock, blobs, reg, files, dirs, svc, power, startup,
                   pruned, opt, workers, current_worker>>

\* ------------------------------------------------ RestoreManager: restore
\* The live system as one value, so that a restore is a function of it
LiveNow == [reg |-> reg, files |-> files, dirs |-> dirs, svc |-> svc,
            power |-> power, startup |-> startup]

\* A restore run: the live system so far, the restore steps taken so far
\* (section, position, whether the step reported success) and the flag
\* `success` of restore_operation
Run0(L) == [L |-> L, att |-> <<>>, ok |-> TRUE]
Step(R, L, section, i, good) ==
    [L |-> L, att |-> Append(R.att, [section |-> section, i |-> i, ok |-> good]),
     ok |-> R.ok /\ good]

\* an OS call (reg import, copy, unzip, net start/stop, powercfg) that is
\* made to fail or time out
Fails(osfail, section, i) == <<section, i>> \in osfail

\* reg import: the key is created and the values of the .reg file are set;
\* values the file does not list stay as they are
RegImport(cur, content) == IF content = EmptyKey /\ cur # Absent THEN cur ELSE content

\* _restore_registry_backup with registry.restore_from_backup (reg import)
restore_registry_backup(R, i, el, B, osfail) ==
    LET e == el.v[1]
    IN IF e.backup_path \notin DOMAIN B THEN Step(R, R.L, "registry", i, FALSE)
       ELSE IF Fails(osfail, "registry", i) THEN Step(R, R.L, "registry", i, FALSE)
       ELSE Step(R, [R.L EXCEPT !.reg[e.subkey] = RegImport(@, B[e.backup_path].content)],
                 "registry", i, TRUE)

\* _restore_single_file that copies the blob back only where the original is gone
restore_single_file_if_missing(R, i, e, B, osfail) ==
    IF Fails(osfail, "file", i) THEN Step(R, R.L, "file", i, FALSE)
    ELSE IF R.L.files[e.original_path] # Absent THEN Step(R, R.L, "file", i, TRUE)
    ELSE Step(R, [R.L EXCEPT !.files[e.original_path] = B[e.backup_path].content],
              "file", i, TRUE)

\* _restore_single_file: parents are created, the blob is copied back
restore_single_file(R, i, e, B, osfail) ==
    IF Fails(osfail, "file", i) THEN Step(R, R.L, "file", i, FALSE)
    ELSE Step(R, [R.L EXCEPT !.files[e.original_path] = B[e.backup_path].content],
              "file", i, TRUE)

EmptyTree == [c \in Children |-> Absent]

\* _restore_directory_from_zip with mkdir and extractall slipped into the else
\* branch of "if original_dir.exists()": an existing directory is only removed
restore_directory_else_extract(R, i, e, B, osfail) ==
    IF R.L.dirs[e.original_path].exists
    THEN Step(R, [R.L EXCEPT !.dirs[e.original_path] = [exists |-> FALSE, tree |-> EmptyTree]],
              "file", i, TRUE)
    ELSE Step(R, [R.L EXCEPT !.dirs[e.original_path] =
                                [exists |-> TRUE, tree |-> B[e.backup_path].content]],
              "file", i, TRUE)

\* _restore_directory_from_zip: rmtree, mkdir, extractall; a failing
\* extraction leaves the emptied directory behind
restore_directory_from_zip(R, i, e, B, osfail) ==
    IF Fails(osfail, "file", i)
    THEN Step(R, [R.L EXCEPT !.dirs[e.original_path] = [exists |-> TRUE, tree |-> EmptyTree]],
              "file", i, FALSE)
    ELSE Step(R, [R.L EXCEPT !.dirs[e.original_path] =
                                [exists |-> TRUE, tree |-> B[e.backup_path].content]],
              "file", i, TRUE)

\* _restore_file_backup
restore_file_backup(R, i, el, B, osfail) ==
    LET e == el.v[1]
    IN IF e.backup_path \notin DOMAIN B THEN Step(R, R.L, "file", i, FALSE)
       ELSE IF e.type = "directory_zip" THEN restore_directory_from_zip(R, i, e, B, osfail)
       ELSE restore_single_file(R, i, e, B, osfail)

\* ServiceManager.start_service / stop_service towards `target`
DriveService(R, i, name, target, osfail) ==
    IF R.L.svc[name] = target THEN Step(R, R.L, "service", i, TRUE)
    ELSE IF Fails(osfail, "service", i) THEN Step(R, R.L, "service", i, FALSE)
    ELSE Step(R, [R.L EXCEPT !.svc[name] = target], "service", i, TRUE)

\* _restore_service_state
restore_service_state(R, i, item, osfail) ==
    LET target == item.val.v[1].state
    IN IF target = "RUNNING" THEN DriveService(R, i, item.key, "RUNNING", osfail)
       ELSE IF target = "STOPPED" THEN DriveService(R, i, item.key, "STOPPED", osfail)
       ELSE Step(R, R.L, "service", i, TRUE)

\* _restore_power_plan: position 1 is the Ultimate Performance attempt,
\* position 2 the High Performance fallback; a section that is a list has
\* no .get and the exception is reported as failure
restore_power_plan(R, sec, osfail) ==
    IF sec.t # "dict" THEN Step(R, R.L, "power", 0, FALSE)
    ELSE LET output == sec.v[1].output
             hp == IF Fails(osfail, "power", 2)
                   THEN Step(R, R.L, "power", 2, FALSE)
                   ELSE Step(R, [R.L EXCEPT !.power = "High performance"], "power", 2, TRUE)
         IN IF output = "Ultimate Performance" /\ ~Fails(osfail, "power", 1)
            THEN Step(R, [R.L EXCEPT !.power = "Ultimate Performance"], "power", 1, TRUE)
            ELSE hp

\* _restore_startup_items: the items of the section, one by one; an item
\* that is not a dict has no .get, the exception is logged and the item is
\* not counted.  Returns the live system and success_count.
RECURSIVE StartupLoop(_, _, _, _, _)
StartupLoop(items, i, L, count, osfail) ==
    IF i > Len(items) THEN [L |-> L, count |-> count]
    ELSE LET el == items[i]
         IN IF el.t = "dict" /\ ~Fails(osfail, "startup", i)
            THEN StartupLoop(items, i + 1,
                             [L EXCEPT !.startup[el.v[1].name] = el.v[1].value],
                             count + 1, osfail)
            ELSE StartupLoop(items, i + 1, L, count, osfail)

restore_startup_items(R, sec, osfail) ==
    LET out == StartupLoop(sec.v, 1, R.L, 0, osfail)
    IN Step(R, out.L, "startup", Len(sec.v), out.count > 0 \/ Len(sec.v) = 0)

\* the loops of restore_operation over one section
RECURSIVE RegistryLoop(_, _, _, _, _)
RegistryLoop(R, items, i, B, osfail) ==
    IF i > Len(items) THEN R
    ELSE RegistryLoop(restore_registry_backup(R, i, items[i], B, osfail),
                      items, i + 1, B, osfail)

RECURSIVE FileLoop(_, _, _, _, _)
FileLoop(R, items, i, B, osfail) ==
    IF i > Len(items) THEN R
    ELSE FileLoop(restore_file_backup(R, i, items[i], B, osfail), items, i + 1, B, osfail)

RECURSIVE ServiceLoop(_, _, _, _)
ServiceLoop(R, items, i, osfail) ==
    IF i > Len(items) THEN R
    ELSE ServiceLoop(restore_service_state(R, i, items[i], osfail), items, i + 1, osfail)

RegistrySection(R, info, B, osfail) ==
    IF Truthy(info.registry_backups)
    THEN RegistryLoop(R, info.registry_backups.v, 1, B, osfail) ELSE R
\* the file section given up once an earlier entry has failed
FileSectionUnlessFailed(R, info, B, osfail) ==
    IF Truthy(info.file_backups) /\ R.ok
    THEN FileLoop(R, info.file_backups.v, 1, B, osfail) ELSE R
FileSection(R, info, B, osfail) ==
    IF Truthy(info.file_backups)
    THEN FileLoop(R, info.file_backups.v, 1, B, osfail) ELSE R
ServiceSection(R, info, osfail) ==
    IF Truthy(info.service_states)
    THEN ServiceLoop(R, info.service_states.v, 1, osfail) ELSE R
PowerSection(R, info, osfail) ==
    IF Truthy(info.power_settings)
    THEN restore_power_plan(R, info.power_settings, osfail) ELSE R
StartupSection(R, info, osfail) ==
    IF Truthy(info.startup_items)
    THEN restore_startup_items(R, info.startup_items, osfail) ELSE R

\* restore_operation with the services restarted before the files land
RestoreRunServicesFirst(info, L, B, osfail) ==
    StartupSection(
      PowerSection(
        FileSection(
          ServiceSection(
            RegistrySection(Run0(L), info, B, osfail),
            info, osfail),
          info, B, osfail),
        info, osfail),
      info, osfail)

\* restore_operation on a loaded document: the five sections in order
RestoreRun(info, L, B, osfail) ==
    StartupSection(
      PowerSection(
        ServiceSection(
          FileSection(
            RegistrySection(Run0(L), info, B, osfail),
            info, B, osfail),
          info, osfail),
        info, osfail),
      info, osfail)

\* the OS calls a restore of `info` can make, for the failures to inject
FailPoints(info) ==
    {<<"registry", i>> : i \in DOMAIN info.registry_backups.v}
      \cup {<<"file", i>> : i \in DOMAIN info.file_backups.v}
      \cup {<<"service", i>> : i \in DOMAIN info.service_states.v}
      \cup (IF Truthy(info.power_settings) THEN {<<"power", 1>>, <<"power", 2>>} ELSE {})

\* restore_operation that consumes the backup: the document is removed after
\* the replay
restore_operation_consuming(id, osfail) ==
    IF HasInfo(id)
    THEN LET R == RestoreRun(ledger[id].info, LiveNow, blobs, osfail)
         IN /\ osfail \subseteq FailPoints(ledger[id].info)
            /\ reg' = R.L.reg /\ files' = R.L.files /\ dirs' = R.L.dirs
            /\ svc' = R.L.svc /\ power' = R.L.power /\ startup' = R.L.startup
            /\ last' = Outcome("restore_operation", id,
                                IF R.ok THEN "True" ELSE "False", FALSE, "none",
                                R.att, osfail)
            /\ ledger' = [ledger EXCEPT ![id] = NoFile]
            /\ UNCHANGED <<clock, blobs>>
    ELSE /\ osfail = {}
         /\ last' = Outcome("restore_operation", id, "False", FALSE, "none", <<>>, {})
         /\ UNCHANGED <<clock, ledger, blobs, reg, files, dirs, svc, power, startup>>

restore_operation(id, osfail) ==
    IF HasInfo(id)
    THEN LET R == RestoreRun(ledger[id].info, LiveNow, blobs, osfail)
         IN /\ osfail \subseteq FailPoints(ledger[id].info)
            /\ reg' = R.L.reg /\ files' = R.L.files /\ dirs' = R.L.dirs
            /\ svc' = R.L.svc /\ power' = R.L.power /\ startup' = R.L.startup
            /\ last' = Outcome("restore_operation", id,
                                IF R.ok THEN "True" ELSE "False", FALSE, "none",
                                R.att, osfail)
            /\ UNCHANGED <<clock, ledger, blobs>>
    ELSE /\ osfail = {}
         /\ last' = Outcome("restore_operation", id, "False", FALSE, "none", <<>>, {})
         /\ UNCHANGED <<clock, ledger, blobs, reg, files, dirs, svc, power, startup>>

\* get_restore_preview that plans a power action for a dict section only
PreviewActionsDictPower(info) ==
    [i \in 1..Len(info.registry_backups.v) |-> [section |-> "registry", i |-> i, ok |-> TRUE]]
      \o [i \in 1..Len(info.file_backups.v) |-> [section |-> "file", i |-> i, ok |-> TRUE]]
      \o [i \in 1..Len(info.service_states.v) |-> [section |-> "service", i |-> i, ok |-> TRUE]]
      \o (IF Truthy(info.power_settings) /\ info.power_settings.t = "dict"
          THEN <<[section |-> "power", i |-> 1, ok |-> TRUE]>> ELSE <<>>)
      \o (IF Len(info.startup_items.v) > 0
          THEN <<[section |-> "startup", i |-> Len(info.startup_items.v), ok |-> TRUE]>>
          ELSE <<>>)

\* get_restore_preview: the planned actions, by kind, or None
PreviewActions(info) ==
    [i \in 1..Len(info.registry_backups.v) |-> [section |-> "registry", i |-> i, ok |-> TRUE]]
      \o [i \in 1..Len(info.file_backups.v) |-> [section |-> "file", i |-> i, ok |-> TRUE]]
      \o [i \in 1..Len(info.service_states.v) |-> [section |-> "service", i |-> i, ok |-> TRUE]]
      \o (IF Truthy(info.power_settings)
          THEN <<[section |-> "power", i |-> 1, ok |-> TRUE]>> ELSE <<>>)
      \o (IF Len(info.startup_items.v) > 0
          THEN <<[section |-> "startup", i |-> Len(info.startup_items.v), ok |-> TRUE]>>
          ELSE <<>>)

\* get_restore_preview that saves the preview into the document it read
get_restore_preview_saving(id) ==
    /\ last' = IF HasInfo(id)
               THEN Outcome("get_restore_preview", id, "preview", FALSE, "none",
                            PreviewActions(ledger[id].info), {})
               ELSE Outcome("get_restore_preview", id, "None", FALSE, "none", <<>>, {})
    /\ ledger' = IF HasInfo(id)
                 THEN [ledger EXCEPT ![id] = DocFile(ledger[id].info, clock)]
                 ELSE [ledger EXCEPT ![id] = DocFile(EmptyInfo, clock)]
    /\ UNCHANGED <<clock, blobs, reg, files, dirs, svc, power, startup>>

get_restore_preview(id) ==
    /\ last' = IF HasInfo(id)
               THEN Outcome("get_restore_preview", id, "preview", FALSE, "none",
                            PreviewActions(ledger[id].info), {})
               ELSE Outcome("get_restore_preview", id, "None", FALSE, "none", <<>>, {})
    /\ UNCHANGED <<clock, ledger, blobs, reg, files, dirs, svc, power, startup>>

\* ------------------------------------------------- BackupManager: queries
get_backup_info(id) ==
    /\ last' = Outcome("get_backup_info", id, IF HasInfo(id) THEN "info" ELSE "None",
                        FALSE, "none", <<>>, {})
    /\ UNCHANGED <<clock, ledger, blobs, reg, files, dirs, svc, power, startup>>

\* list_backups / list_available_restores: the readable documents; both
\* return a list whatever the files hold
ListedIds == {id \in IdSpace : IsDoc(ledger[id])}

list_backups ==
    /\ last' = Outcome("list_backups", NoId, "list", FALSE, "none", <<>>, {})
    /\ UNCHANGED <<clock, ledger, blobs, reg, files, dirs, svc, power, startup>>

list_available_restores ==
    /\ last' = Outcome("list_available_restores", NoId, "list", FALSE, "none", <<>>, {})
    /\ UNCHANGED <<clock, ledger, blobs, reg, files, dirs, svc, power, startup>>

\* cleanup_old_backups: every file under the backup root, ledger document or
\* blob, is judged alone by its own modification time
Cutoff(days) == clock - days * SecondsPerDay

Expired(mtime, days) == mtime < Cutoff(days)

cleanup_old_backups(days) ==
    LET keep == {q \in DOMAIN blobs : ~Expired(blobs[q].mtime, days)}
    IN /\ ledger' = [id \in IdSpace |->
                       IF ledger[id].exists /\ Expired(ledger[id].mtime, days)
                       THEN NoFile ELSE ledger[id]]
       /\ blobs' = [q \in keep |-> blobs[q]]
       /\ pruned' = pruned \cup {id \in IdSpace :
                                    ledger[id].exists /\ Expired(ledger[id].mtime, days)}
       /\ last' = Outcome("cleanup_old_backups", NoId, "count", FALSE, "none", <<>>, {})
       /\ UNCHANGED <<clock, reg, files, dirs, svc, power, startup>>

\* ------------------------------------------- the live system being changed
\* (by an optimization's apply, by the user, by Windows)
ChangeRegistry(key, v) ==
    /\ reg[key] # v
    /\ reg' = [reg EXCEPT ![key] = v]
    /\ last' = Quiet("change")
    /\ UNCHANGED <<clock, ledger, blobs, files, dirs, svc, power, startup>>

ChangeFile(p, c) ==
    /\ files[p] # c
    /\ files' = [files EXCEPT ![p] = c]
    /\ last' = Quiet("change")
    /\ UNCHANGED <<clock, ledger, blobs, reg, dirs, svc, power, startup>>

ChangeDirectory(d, ch, c) ==
    /\ dirs[d].exists
    /\ dirs[d].tree[ch] # c
    /\ dirs' = [dirs EXCEPT ![d].tree[ch] = c]
    /\ last' = Quiet("change")
    /\ UNCHANGED <<clock, ledger, blobs, reg, files, svc, power, startup>>

RemoveDirectory(d) ==
    /\ dirs[d].exists
    /\ dirs' = [dirs EXCEPT ![d] = [exists |-> FALSE, tree |-> EmptyTree]]
    /\ last' = Quiet("change")
    /\ UNCHANGED <<clock, ledger, blobs, reg, files, svc, power, startup>>

ChangeService(s, st) ==
    /\ svc[s] # st
    /\ svc' = [svc EXCEPT ![s] = st]
    /\ last' = Quiet("change")
    /\ UNCHANGED <<clock, ledger, blobs, reg, files, dirs, power, startup>>

ChangePower(plan) ==
    /\ power # plan
    /\ power' = plan
    /\ last' = Quiet("change")
    /\ UNCHANGED <<clock, ledger, blobs, reg, files, dirs, svc, startup>>

ChangeStartup(n, v) ==
    /\ startup[n] # v
    /\ startup' = [startup EXCEPT ![n] = v]
    /\ last' = Quiet("change")
    /\ UNCHANGED <<clock, ledger, blobs, reg, files, dirs, svc, power>>

\* ---------------------------------------------------------- specification
\* ------------------------------------ restore_operation, entry by entry
\* no call under way; otherwise the document read at the start, the entries
\* still to take, the steps taken, the flag `success` and the OS calls that
\* timed out
NotRestoring == [active |-> FALSE, id |-> NoId, info |-> EmptyInfo, todo |-> <<>>,
                 att |-> <<>>, ok |-> TRUE, timedout |-> {}]

\* the entries restore_operation takes, in its order
Traversal(info) ==
    [i \in 1..Len(info.registry_backups.v) |-> <<"registry", i>>]
      \o [i \in 1..Len(info.file_backups.v) |-> <<"file", i>>]
      \o [i \in 1..Len(info.service_states.v) |-> <<"service", i>>]
      \o (IF Truthy(info.power_settings) THEN << <<"power", 1>> >> ELSE <<>>)
      \o (IF Truthy(info.startup_items)
          THEN << <<"startup", Len(info.startup_items.v)>> >> ELSE <<>>)

\* the restore helper of entry t, applied to the run so far
RestoreEntry(R, info, t, B, osfail) ==
    CASE t[1] = "registry" ->
            restore_registry_backup(R, t[2], info.registry_backups.v[t[2]], B, osfail)
      [] t[1] = "file" ->
            restore_file_backup(R, t[2], info.file_backups.v[t[2]], B, osfail)
      [] t[1] = "service" ->
            restore_service_state(R, t[2], info.service_states.v[t[2]], osfail)
      [] t[1] = "power" -> restore_power_plan(R, info.power_settings, osfail)
      [] OTHER -> restore_startup_items(R, info.startup_items, osfail)

\* the subprocess calls with a timeout that the helper of entry t makes
\* when the calls in osfail fail: reg import, net start / net stop, and the
\* one or two powercfg calls
CallsMade(L, info, t, B, osfail) ==
    CASE t[1] = "registry" ->
            IF info.registry_backups.v[t[2]].v[1].backup_path \in DOMAIN B THEN {t} ELSE {}
      [] t[1] = "service" ->
            LET item == info.service_states.v[t[2]]
            IN IF item.val.v[1].state \in {"RUNNING", "STOPPED"}
                  /\ L.svc[item.key] # item.val.v[1].state
               THEN {t} ELSE {}
      [] t[1] = "power" ->
            IF info.power_settings.t # "dict" THEN {}
            ELSE IF info.power_settings.v[1].output = "Ultimate Performance"
                 THEN {<<"power", 1>>}
                        \cup (IF <<"power", 1>> \in osfail THEN {<<"power", 2>>} ELSE {})
                 ELSE {<<"power", 2>>}
      [] OTHER -> {}

\* restore_operation up to the start of the traversal: get_backup_info, and
\* False at once when there is no document
restore_begin(id) ==
    /\ ~restoring.active
    /\ IF HasInfo(id)
       THEN /\ restoring' = [active |-> TRUE, id |-> id, info |-> ledger[id].info,
                              todo |-> Traversal(ledger[id].info), att |-> <<>>,
                              ok |-> TRUE, timedout |-> {}]
            /\ last' = Quiet("restore_begin")
       ELSE /\ restoring' = NotRestoring
            /\ last' = Outcome("restore_operation", id, "False", FALSE, "none", <<>>, {})
    /\ UNCHANGED <<clock, ledger, blobs, reg, files, dirs, svc, power, startup,
                   pruned, pending, opt, workers, current_worker>>

\* The step of one entry of the traversal: its helper runs with the calls in
\* osfail failing, those in timeouts by subprocess.TimeoutExpired; the helper
\* returns, success is updated and the traversal moves on.
restore_step(osfail, timeouts) ==
    /\ restoring.active
    /\ restoring.todo # <<>>
    /\ LET t == Head(restoring.todo)
           R == RestoreEntry([L |-> LiveNow, att |-> restoring.att, ok |-> restoring.ok],
                             restoring.info, t, blobs, osfail)
       IN /\ osfail \subseteq CallsMade(LiveNow, restoring.info, t, blobs, osfail)
          /\ timeouts \subseteq osfail
          /\ reg' = R.L.reg /\ files' = R.L.files /\ dirs' = R.L.dirs
          /\ svc' = R.L.svc /\ power' = R.L.power /\ startup' = R.L.startup
          /\ restoring' = [restoring EXCEPT !.todo = Tail(@), !.att = R.att, !.ok = R.ok,
                                            !.timedout = @ \cup timeouts]
    /\ last' = Quiet("restore_step")
    /\ UNCHANGED <<clock, ledger, blobs, steps, pruned, pending, opt, workers,
                   current_worker>>

\* return success
restore_return ==
    /\ restoring.active
    /\ restoring.todo = <<>>
    /\ restoring' = [restoring EXCEPT !.active = FALSE]
    /\ last' = Outcome("restore_operation", restoring.id,
                        IF restoring.ok THEN "True" ELSE "False", FALSE, "none",
                        restoring.att, restoring.timedout)
    /\ UNCHANGED <<clock, ledger, blobs, reg, files, dirs, svc, power, startup, steps,
                   pruned, pending, opt, workers, current_worker>>

\* ------------------------------------------- BaseOptimization and workers
\* The optimization is of the kind of XboxGameBarOptimization: apply()
\* captures its registry key into the operation backup and writes the key,
\* revert() restores the operation backup.
AppliedValue == 2

is_applied == opt.status = "APPLIED"
can_revert == opt.backup_id # NoId /\ is_applied

\* one method called inside a _safe_* wrapper, and what it returned
Called(name, ok) == [name |-> name, ok |-> ok]

\* QThread.isRunning
isRunning(w) == workers[w].state \in {"running", "emitted"}

\* the end of OptimizationWorker.run: finished.emit(optimization, result);
\* the signal is queued for the main thread and the thread is still alive
Emit(w, success, calls) ==
    workers' = [workers EXCEPT ![w] = [state |-> "emitted", operation |-> @.operation,
                                       success |-> success, calls |-> calls,
                                       handled |-> FALSE]]

\* _safe_apply that goes on to apply() when create_backup has failed
safe_apply_without_backup(w, valid, io, applyok, osok) ==
    LET name == CHOOSE n \in OpNames : TRUE
        key == CHOOSE k \in RegKeys : TRUE
    IN /\ ledger' = [ledger EXCEPT ![[op |-> name, ts |-> clock]] =
                         WriteDoc(@, NewBackupInfo(name, clock), io)]
       /\ blobs' = AutoBackup(key)
       /\ reg' = IF osok THEN [reg EXCEPT ![key] = AppliedValue] ELSE reg
       /\ opt' = [status |-> IF applyok THEN "APPLIED" ELSE "ERROR",
                  backup_id |-> IF io = "ok" THEN [op |-> name, ts |-> clock]
                                ELSE opt.backup_id]
       /\ last' = Quiet("_safe_apply")
       /\ Emit(w, applyok, <<Called("_validate_environment", valid),
                              Called("create_backup", io = "ok"),
                              Called("apply", applyok)>>)
       /\ UNCHANGED <<clock, files, dirs, svc, power, startup, pruned, pending,
                      current_worker>>

\* _safe_apply run by worker w.  valid: what _validate_environment returns;
\* io: how the ledger write of create_operation_backup ends; applyok: whether
\* apply() returns success; osok: whether the registry write of apply() succeeds
safe_apply(w, valid, io, applyok, osok) ==
    LET name == CHOOSE n \in OpNames : TRUE
        key == CHOOSE k \in RegKeys : TRUE
        id == [op |-> name, ts |-> clock]
        created == DocFile(NewBackupInfo(name, clock), clock)
        captured == IF reg[key] # Absent
                    THEN update_backup_info(created, "registry_backups",
                             Entry([subkey |-> key, backup_path |-> RegBlobPath(key, clock)]),
                             "", "ok")
                    ELSE created
    IN IF ~valid
       THEN /\ io = "ok" /\ applyok /\ osok
            /\ last' = Quiet("_safe_apply")
            /\ Emit(w, FALSE, <<Called("_validate_environment", FALSE)>>)
            /\ UNCHANGED <<clock, ledger, blobs, reg, files, dirs, svc, power, startup,
                           pruned, pending, opt, current_worker>>
       ELSE IF io # "ok"
       THEN /\ applyok /\ osok
            /\ create_operation_backup(name, io)
            /\ Emit(w, FALSE, <<Called("_validate_environment", TRUE),
                                 Called("create_backup", FALSE)>>)
            /\ UNCHANGED <<pruned, pending, opt, current_worker>>
       ELSE /\ ledger' = [ledger EXCEPT ![id] = captured]
            /\ blobs' = AutoBackup(key)
            /\ reg' = IF osok THEN [reg EXCEPT ![key] = AppliedValue] ELSE reg
            /\ opt' = [status |-> IF applyok THEN "APPLIED" ELSE "ERROR", backup_id |-> id]
            /\ last' = Quiet("_safe_apply")
            /\ Emit(w, applyok, <<Called("_validate_environment", TRUE),
                                   Called("create_backup", TRUE),
                                   Called("apply", applyok)>>)
            /\ UNCHANGED <<clock, files, dirs, svc, power, startup, pruned, pending,
                           current_worker>>

\* _safe_revert run by worker w: revert() is restore_operation(backup_id)
safe_revert(w, osfail) ==
    IF can_revert
    THEN /\ restore_operation(opt.backup_id, osfail)
         /\ opt' = [opt EXCEPT !.status = IF last'.result = "True"
                                          THEN "NOT_APPLIED" ELSE "ERROR"]
         /\ Emit(w, last'.result = "True", <<Called("revert", last'.result = "True")>>)
         /\ UNCHANGED <<pruned, pending, current_worker>>
    ELSE /\ osfail = {}
         /\ last' = Quiet("_safe_revert")
         /\ Emit(w, FALSE, <<>>)
         /\ UNCHANGED <<clock, ledger, blobs, reg, files, dirs, svc, power, startup,
                        pruned, pending, opt, current_worker>>

\* _safe_simulate run by worker w.  simok: whether simulate() returns success
safe_simulate(w, valid, simok) ==
    /\ valid \/ simok
    /\ opt' = IF valid /\ simok THEN [opt EXCEPT !.status = "SIMULATED"] ELSE opt
    /\ last' = Quiet("_safe_simulate")
    /\ Emit(w, valid /\ simok,
            IF valid THEN <<Called("_validate_environment", TRUE), Called("simulate", simok)>>
            ELSE <<Called("_validate_environment", FALSE)>>)
    /\ UNCHANGED <<clock, ledger, blobs, reg, files, dirs, svc, power, startup,
                   pruned, pending, current_worker>>

\* OptimizationWorker.run: the operation, then finished.emit
OptimizationWorker_run(w) ==
    /\ workers[w].state = "running"
    /\ \/ /\ workers[w].operation = "apply"
          /\ \E valid \in BOOLEAN, io \in IoOutcomes, applyok \in BOOLEAN, osok \in BOOLEAN :
                safe_apply(w, valid, io, applyok, osok)
       \/ /\ workers[w].operation = "revert"
          /\ \E osfail \in (IF HasInfo(opt.backup_id)
                             THEN SUBSET FailPoints(ledger[opt.backup_id].info)
                             ELSE {{}}) :
                safe_revert(w, osfail)
       \/ /\ workers[w].operation = "simulate"
          /\ \E valid \in BOOLEAN, simok \in BOOLEAN : safe_simulate(w, valid, simok)

\* the thread of a worker ends after run has returned
ThreadExit(w) ==
    /\ workers[w].state = "emitted"
    /\ workers' = [workers EXCEPT ![w].state = "finished"]
    /\ last' = Quiet("thread")
    /\ UNCHANGED <<clock, ledger, blobs, reg, files, dirs, svc, power, startup,
                   pruned, pending, opt, current_worker>>

\* _run_optimization without the test of the worker in progress
run_optimization_unguarded(operation) ==
    /\ \E w \in WorkerIds : workers[w].state = "none"
    /\ LET w == CHOOSE x \in WorkerIds :
                    workers[x].state = "none"
                       /\ \A y \in WorkerIds : workers[y].state = "none" => x <= y
       IN /\ workers' = [workers EXCEPT ![w] = [state |-> "running", operation |-> operation,
                                                 success |-> FALSE, calls |-> <<>>,
                                                 handled |-> FALSE]]
          /\ current_worker' = w
          /\ last' = Outcome("_run_optimization", NoId, "started", FALSE, "none", <<>>, {})
    /\ UNCHANGED <<clock, ledger, blobs, reg, files, dirs, svc, power, startup,
                   pruned, pending, opt>>

\* MainWindow._run_optimization, in the main thread: a request is turned
\* down while current_worker is set and running, otherwise a new worker is
\* created, kept in current_worker and started
run_optimization(operation) ==
    IF current_worker # NoWorker /\ isRunning(current_worker)
    THEN /\ last' = Outcome("_run_optimization", NoId, "rejected", FALSE, "none", <<>>, {})
         /\ UNCHANGED <<clock, ledger, blobs, reg, files, dirs, svc, power, startup,
                        pruned, pending, opt, workers, current_worker>>
    ELSE /\ \E w \in WorkerIds : workers[w].state = "none"
         /\ LET w == CHOOSE x \in WorkerIds :
                         workers[x].state = "none"
                            /\ \A y \in WorkerIds : workers[y].state = "none" => x <= y
            IN /\ workers' = [workers EXCEPT ![w] =
                                 [state |-> "running", operation |-> operation,
                                  success |-> FALSE, calls |-> <<>>, handled |-> FALSE]]
               /\ current_worker' = w
               /\ last' = Outcome("_run_optimization", NoId, "started", FALSE, "none", <<>>, {})
         /\ UNCHANGED <<clock, ledger, blobs, reg, files, dirs, svc, power, startup,
                        pruned, pending, opt>>

\* MainWindow._on_worker_finished, in the main thread, when the queued
\* finished signal of worker w is delivered: current_worker = None
on_worker_finished(w) ==
    /\ workers[w].state \in {"emitted", "finished"}
    /\ ~workers[w].handled
    /\ workers' = [workers EXCEPT ![w].handled = TRUE]
    /\ current_worker' = NoWorker
    /\ last' = Quiet("_on_worker_finished")
    /\ UNCHANGED <<clock, ledger, blobs, reg, files, dirs, svc, power, startup,
                   pruned, pending, opt>>

Init ==
    /\ clock = 1
    /\ ledger = [id \in IdSpace |-> NoFile]
    /\ blobs = <<>>
    /\ reg = [k \in RegKeys |-> 1]
    /\ files = [p \in AllFilePaths |-> 1]
    /\ dirs = [d \in DirPaths |-> [exists |-> TRUE, tree |-> [c \in Children |-> 1]]]
    /\ svc = [s \in Services |-> "RUNNING"]
    /\ power = "Balanced"
    /\ startup = [n \in StartupNames |-> 1]
    /\ last = Quiet("init")
    /\ steps = 0
    /\ pruned = {}
    /\ pending = [c \in Callers |-> NoCall]
    /\ opt = [status |-> "NOT_APPLIED", backup_id |-> NoId]
    /\ workers = [w \in WorkerIds |-> NotStarted]
    /\ current_worker = NoWorker
    /\ restoring = NotRestoring

\* a step taken from the budget of the scenario, outside the entry-by-entry
\* restore
Count(max) == steps < max /\ steps' = steps + 1 /\ UNCHANGED restoring
\* a step of the backup engine called on its own: no call of the application
\* is under way, and the step is none of cleanup_old_backups
Engine(max) == Count(max) /\ UNCHANGED <<pruned, pending, opt, workers, current_worker>>
\* a step of cleanup_old_backups called on its own
Cleanup(max) == Count(max) /\ UNCHANGED app

\* the captures, on the documents `ids`, with the ledger writes ending as `ios`
Capture(ids, ios) ==
    \E id \in ids, io \in ios :
        \/ \E key \in RegKeys : backup_registry_key(id, key, io)
        \/ \E p \in FilePaths, mt \in {0, clock} : backup_file(id, p, io, mt)
        \/ \E d \in DirPaths : backup_directory(id, d, io)
        \/ \E s \in Services : backup_service_state(id, s, io)
        \/ \E shellok \in BOOLEAN : backup_power_plan(id, shellok, io)
        \/ backup_startup_items(id, io)

Change ==
    \/ \E key \in RegKeys, v \in RegValues \cup {Absent} : ChangeRegistry(key, v)
    \/ \E p \in FilePaths, c \in FileContents \cup {Absent} : ChangeFile(p, c)
    \/ \E d \in DirPaths, ch \in Children, c \in TreeValues : ChangeDirectory(d, ch, c)
    \/ \E d \in DirPaths : RemoveDirectory(d)
    \/ \E s \in Services, st \in ServiceState : ChangeService(s, st)
    \/ \E plan \in Plans : ChangePower(plan)
    \/ \E n \in StartupNames, v \in StartupValues \cup {Absent} : ChangeStartup(n, v)

Restore ==
    \E id \in IdSpace : \E osfail \in SUBSET FailPoints(ledger[id].info) :
        restore_operation(id, osfail)

\* Restore scenarios: every ledger write succeeds and captures go to the
\* documents that exist; restores meet OS failures and pruned blobs.
Next ==
    \/ Engine(MaxSteps) /\ Tick
    \/ Engine(MaxSteps) /\ \E name \in OpNames : create_operation_backup(name, "ok")
    \/ Engine(MaxSteps) /\ Capture({id \in IdSpace : IsDoc(ledger[id])}, {"ok"})
    \/ Engine(MaxSteps) /\ Restore
    \/ Cleanup(MaxSteps) /\ \E days \in DaysInputs : cleanup_old_backups(days)
    \/ Engine(MaxSteps) /\ Change

Spec == Init /\ [][Next]_vars

\* Ledger scenarios: ledger writes may fail, captures may name any backup_id
\* of a second that has begun (its document created or not, pruned or not),
\* the queries are called; the live system is left alone and the OS calls of
\* a restore succeed.
NextLedger ==
    \/ Engine(MaxLedgerSteps) /\ Tick
    \/ Engine(MaxLedgerSteps) /\ \E name \in OpNames, io \in IoOutcomes :
                                   create_operation_backup(name, io)
    \/ Engine(MaxLedgerSteps) /\ Capture({id \in IdSpace : id.ts <= clock}, IoOutcomes)
    \/ Engine(MaxLedgerSteps) /\ \E id \in IdSpace : restore_operation(id, {})
    \/ Engine(MaxLedgerSteps) /\ \E id \in IdSpace : get_restore_preview(id)
    \/ Engine(MaxLedgerSteps) /\ \E id \in IdSpace : get_backup_info(id)
    \/ Engine(MaxLedgerSteps) /\ list_backups
    \/ Engine(MaxLedgerSteps) /\ list_available_restores
    \/ Cleanup(MaxLedgerSteps) /\ \E days \in DaysInputs : cleanup_old_backups(days)

SpecLedger == Init /\ [][NextLedger]_vars

\* Path scenarios: one operation backs up files whose paths differ in a
\* separator only, the files change, the backup is restored; every ledger
\* write and every OS call succeeds.
NextPaths ==
    \/ Engine(MaxPathSteps) /\ \E name \in OpNames : create_operation_backup(name, "ok")
    \/ Engine(MaxPathSteps) /\ \E id \in {x \in IdSpace : IsDoc(ledger[x])}, p \in AllFilePaths :
                                backup_file(id, p, "ok", clock)
    \/ Engine(MaxPathSteps) /\ \E p \in AllFilePaths, c \in FileContents \cup {Absent} :
                                ChangeFile(p, c)
    \/ Engine(MaxPathSteps) /\ \E id \in IdSpace : restore_operation(id, {})

SpecPaths == Init /\ [][NextPaths]_vars

\* Concurrent captures: two threads capture into the documents that exist,
\* each call of _update_backup_info taking its load and its save as
\* separate steps, in any interleaving; every write succeeds.
MaxRaceSteps == 5
NextRace ==
    \/ Engine(MaxRaceSteps) /\ Tick
    \/ Engine(MaxRaceSteps) /\ \E name \in OpNames : create_operation_backup(name, "ok")
    \/ Count(MaxRaceSteps) /\ \E c \in Callers, id \in {x \in IdSpace : IsDoc(ledger[x])},
                                 key \in RegKeys : backup_registry_key_load(c, id, key)
    \/ Count(MaxRaceSteps) /\ \E c \in Callers, id \in {x \in IdSpace : IsDoc(ledger[x])},
                                 p \in FilePaths : backup_file_load(c, id, p)
    \/ Count(MaxRaceSteps) /\ \E c \in Callers : update_backup_info_save(c)

SpecRace == Init /\ [][NextRace]_vars

\* Registry scenarios: an operation captures a key, the key is written and
\* its value deleted through the RegistryManager (as the optimizations do
\* after their capture), seconds pass, the backup is restored; every ledger
\* write succeeds.
MaxRegSteps == 5
NextRegistry ==
    \/ Engine(MaxRegSteps) /\ Tick
    \/ Engine(MaxRegSteps) /\ \E name \in OpNames : create_operation_backup(name, "ok")
    \/ Engine(MaxRegSteps) /\ \E id \in {x \in IdSpace : IsDoc(ledger[x])}, key \in RegKeys :
                                backup_registry_key(id, key, "ok")
    \/ Engine(MaxRegSteps) /\ \E key \in RegKeys, v \in RegValues, osok \in BOOLEAN :
                                write_value(key, v, osok)
    \/ Engine(MaxRegSteps) /\ \E key \in RegKeys, osok \in BOOLEAN : delete_value(key, osok)
    \/ Engine(MaxRegSteps) /\ \E id \in IdSpace : restore_operation(id, {})

SpecRegistry == Init /\ [][NextRegistry]_vars

\* The application: the user asks for operations on the optimization, the
\* main thread starts workers, workers run their operation and emit
\* finished, threads end, and the main thread handles the queued finished
\* signals.  The event loop takes user requests and queued signals in any
\* order, and a thread may end before or after its signal is handled.
MaxAppSteps == 7
NextApp ==
    \/ Count(MaxAppSteps) /\ \E operation \in Operations : run_optimization(operation)
    \/ Count(MaxAppSteps) /\ \E w \in WorkerIds : OptimizationWorker_run(w)
    \/ Count(MaxAppSteps) /\ \E w \in WorkerIds : ThreadExit(w)
    \/ Count(MaxAppSteps) /\ \E w \in WorkerIds : on_worker_finished(w)
    \/ Engine(MaxAppSteps) /\ Tick

SpecApp == Init /\ [][NextApp]_vars

\* Restores entry by entry: the live system changes, an operation captures
\* it, and restore_operation is followed through its traversal, each
\* subprocess call ending in success, failure or timeout.  The thread inside
\* restore_operation keeps running (sequential code, every call returns or
\* times out), hence the weak fairness of its steps.
MaxTraversalSteps == 4
CallPoints == {<<"registry", i>> : i \in 1..MaxEntries + 1}
                \cup {<<"service", i>> : i \in 1..MaxEntries + 1}
                \cup {<<"power", 1>>, <<"power", 2>>}
RestoreProgress ==
    \/ \E osfail \in SUBSET CallPoints : \E timeouts \in SUBSET osfail :
          restore_step(osfail, timeouts)
    \/ restore_return
NextTraversal ==
    \/ Engine(MaxTraversalSteps) /\ \E name \in OpNames : create_operation_backup(name, "ok")
    \/ Engine(MaxTraversalSteps) /\ Capture({id \in IdSpace : IsDoc(ledger[id])}, {"ok"})
    \/ Engine(MaxTraversalSteps) /\ \E s \in Services, st \in ServiceState : ChangeService(s, st)
    \/ Engine(MaxTraversalSteps) /\ \E plan \in Plans : ChangePower(plan)
    \/ steps < MaxTraversalSteps /\ steps' = steps + 1
          /\ \E id \in IdSpace : restore_begin(id)
    \/ \E osfail \in SUBSET CallPoints : \E timeouts \in SUBSET osfail :
          restore_step(osfail, timeouts)
    \/ restore_return

SpecTraversal == Init /\ [][NextTraversal]_vars /\ WF_vars(RestoreProgress)

\* ------------------------------------------------------------------ claims
IsRestore(o) == o.op = "restore_operation"
Rank(section) ==
    CASE section = "registry" -> 1
      [] section = "file" -> 2
      [] section = "service" -> 3
      [] section = "power" -> 4
      [] OTHER -> 5
Attempted(o, section, i) ==
    \E k \in DOMAIN o.attempts : o.attempts[k].section = section /\ o.attempts[k].i = i

\* C1: restore_operation takes its restore steps in the section order
\* registry, files/directories, services, power plan, startup items: no step
\* of a later section comes before a step of an earlier section, and within
\* a section the entries are taken in the order of the document.
C1_SectionOrder ==
    IsRestore(last) =>
        \A j, k \in DOMAIN last.attempts :
            j < k => \/ Rank(last.attempts[j].section) < Rank(last.attempts[k].section)
                     \/ /\ last.attempts[j].section = last.attempts[k].section
                        /\ last.attempts[j].i < last.attempts[k].i

\* a restore that took steps of a file/directory entry and of a service
C1_Witness ==
    /\ IsRestore(last)
    /\ \E j, k \in DOMAIN last.attempts :
           last.attempts[j].section = "file" /\ last.attempts[k].section = "service"

\* C2: restore_operation does not stop on the first failure: whatever entries
\* fail (blob pruned, OS call failing), every entry of every present section
\* of the document is attempted, and a failed entry makes the call return False.
C2_AllAttempted ==
    (IsRestore(last) /\ ledger[last.id].exists) =>
        LET info == ledger[last.id].info
        IN /\ \A i \in DOMAIN info.registry_backups.v : Attempted(last, "registry", i)
           /\ \A i \in DOMAIN info.file_backups.v : Attempted(last, "file", i)
           /\ \A i \in DOMAIN info.service_states.v : Attempted(last, "service", i)
           /\ Len(info.power_settings.v) > 0 =>
                  \E k \in DOMAIN last.attempts : last.attempts[k].section = "power"
           /\ Len(info.startup_items.v) > 0 =>
                  Attempted(last, "startup", Len(info.startup_items.v))
           /\ (\E k \in DOMAIN last.attempts : ~last.attempts[k].ok)
                  => last.result = "False"

\* a restore whose first step failed and that went on to a step that succeeded
C2_Witness ==
    /\ IsRestore(last)
    /\ Len(last.attempts) >= 2
    /\ ~last.attempts[1].ok
    /\ \E k \in DOMAIN last.attempts : k > 1 /\ last.attempts[k].ok
    /\ last.result = "False"

\* the entries of a document, section by section
ServiceItems(info) == {info.service_states.v[i] : i \in DOMAIN info.service_states.v}
\* the startup items recorded in a document, whatever list they sit in
StartupRecorded(info) ==
    {el \in {info.startup_items.v[i] : i \in DOMAIN info.startup_items.v} : el.t = "dict"}
      \cup UNION {{el.v[j] : j \in DOMAIN el.v} :
                    el \in {x \in {info.startup_items.v[i] : i \in DOMAIN info.startup_items.v} :
                              x.t = "list"}}

\* C3: restore_operation returns True only if every entry was restored: every
\* step reported success, every recorded service is in its recorded run state
\* (UNKNOWN aside) and every recorded startup item is back in place.
C3_SuccessOnlyIfAllRestored ==
    (IsRestore(last) /\ last.result = "True" /\ ledger[last.id].exists) =>
        LET info == ledger[last.id].info
        IN /\ \A k \in DOMAIN last.attempts : last.attempts[k].ok
           /\ \A item \in ServiceItems(info) :
                  \/ item.val.v[1].state = "UNKNOWN"
                  \/ svc[item.key] = item.val.v[1].state
           /\ \A el \in StartupRecorded(info) : startup[el.v[1].name] = el.v[1].value

\* C4: restore_operation on a backup_id with no ledger document returns False,
\* raises nothing, takes no restore step and changes neither the live system
\* nor the backup root.
C4_NotFound ==
    [][(IsRestore(last') /\ ~ledger[last'.id].exists) =>
          /\ last'.result = "False"
          /\ ~last'.raised
          /\ last'.attempts = <<>>
          /\ UNCHANGED <<ledger, blobs, reg, files, dirs, svc, power, startup>>]_vars

\* a restore of a backup_id without a document while another backup, with
\* entries, is in the ledger
C4_Witness ==
    /\ IsRestore(last)
    /\ ~ledger[last.id].exists
    /\ \E id \in IdSpace : IsDoc(ledger[id]) /\ EntryCount(ledger[id].info) > 0

\* b keeps every entry of a, in place and unchanged
Keeps(a, b) ==
    /\ Len(b.v) >= Len(a.v)
    /\ \A i \in DOMAIN a.v : b.v[i] = a.v[i]
    /\ (a.t # "missing" => b.t = a.t)

\* C5: the sections of a ledger document are additive only: whatever
\* create_operation_backup and backup_* calls are made, every entry of every
\* section stays in the document, unchanged, until cleanup_old_backups removes
\* the document.
C5_AdditiveOnly ==
    [][\A id \in IdSpace :
         (IsDoc(ledger[id]) /\ last'.op # "cleanup_old_backups") =>
            /\ IsDoc(ledger'[id])
            /\ \A sec \in SectionKeys : Keeps(ledger[id].info[sec], ledger'[id].info[sec])]_vars

\* C6: restore_operation leaves the ledger documents and the blobs as they
\* are, so the same backup can be restored again; a ledger document goes away
\* in a cleanup_old_backups call only.
C6_RestoreKeepsBackup ==
    [][/\ IsRestore(last') => (ledger' = ledger /\ blobs' = blobs)
       /\ \A id \in IdSpace :
             (ledger[id].exists /\ ~ledger'[id].exists) => last'.op = "cleanup_old_backups"]_vars

\* a restore that replayed entries of a document that is still there
C6_Witness ==
    /\ IsRestore(last)
    /\ HasInfo(last.id)
    /\ Len(last.attempts) >= 2
    /\ \E k \in DOMAIN last.attempts : last.attempts[k].ok

\* C7: restore_operation is idempotent on the live system: the same call made
\* again right away, meeting the same OS failures, leaves the registry, the
\* files, the directories, the services, the power plan and the startup
\* entries as the first call left them, and returns what the first returned.
C7_Idempotent ==
    [][(IsRestore(last') /\ HasInfo(last'.id)) =>
          LET again == RestoreRun(ledger'[last'.id].info, LiveNow', blobs', last'.osfail)
          IN /\ again.L = LiveNow'
             /\ again.ok = (last'.result = "True")]_vars

\* a successful restore of a directory entry and of another entry
C7_Witness ==
    /\ IsRestore(last)
    /\ last.result = "True"
    /\ Len(last.attempts) >= 2
    /\ \E i \in DOMAIN ledger[last.id].info.file_backups.v :
           ledger[last.id].info.file_backups.v[i].v[1].type = "directory_zip"

\* the blobs the entries of a document point to
ReferencedBlobs(info) ==
    {info.registry_backups.v[i].v[1].backup_path : i \in DOMAIN info.registry_backups.v}
      \cup {info.file_backups.v[i].v[1].backup_path : i \in DOMAIN info.file_backups.v}

\* C8: cleanup_old_backups leaves every ledger document that survives it
\* unchanged and deletes no blob such a document references.
C8_CleanupKeepsReferencedBlobs ==
    [][last'.op = "cleanup_old_backups" =>
          \A id \in IdSpace :
             IsDoc(ledger'[id]) =>
                /\ ledger'[id] = ledger[id]
                /\ \A q \in ReferencedBlobs(ledger[id].info) :
                       q \in DOMAIN blobs => q \in DOMAIN blobs']_vars

CaptureOps == {"backup_registry_key", "backup_file", "backup_directory",
               "backup_service_state", "backup_power_plan", "backup_startup_items"}

\* C9: a capture call whose ledger write fails returns False, and the entries
\* written by earlier calls stay in the document.
C9_WriteFailureReported ==
    [][(last'.op \in CaptureOps /\ last'.wrote \in {"deny", "trunc"}) =>
          /\ last'.result = "False"
          /\ IsDoc(ledger[last'.id]) =>
                /\ IsDoc(ledger'[last'.id])
                /\ \A sec \in SectionKeys :
                       Keeps(ledger[last'.id].info[sec], ledger'[last'.id].info[sec])]_vars

\* C10: no public operation of the engine lets an exception reach its caller.
C10_NoException == ~last.raised

\* C11: once create_operation_backup has returned backup_id, the document
\* found under backup_id is readable, carries that backup_id and the operation
\* name, and is listed by list_backups, after every later call, until
\* cleanup_old_backups removes it.
C11_CreatedRecordResolves ==
    [][/\ (last'.op = "create_operation_backup" /\ last'.result = "id") =>
            /\ IsDoc(ledger'[last'.id])
            /\ ledger'[last'.id].info.backup_id = last'.id
            /\ ledger'[last'.id].info.operation = last'.id.op
       /\ \A id \in IdSpace :
            (IsDoc(ledger[id]) /\ ledger[id].info.backup_id = id) =>
               \/ /\ IsDoc(ledger'[id])
                  /\ ledger'[id].info.backup_id = id
                  /\ ledger'[id].info.operation = id.op
                  /\ id \in {x \in IdSpace : IsDoc(ledger'[x])}
               \/ last'.op = "cleanup_old_backups" /\ ~ledger'[id].exists]_vars

EntriesOf(info, p) ==
    {i \in DOMAIN info.file_backups.v : info.file_backups.v[i].v[1].original_path = p}

\* C13: backup_file and backup_directory on a path that does not exist return
\* True, write no blob and leave the ledger document as it was; a restore of
\* the backup afterwards runs as it would have run without the call, and,
\* the document holding no earlier entry of the path, leaves the path absent.
C13_MissingPathCapture ==
    [][/\ (last'.op = "backup_file" /\ \A p \in FilePaths : files[p] = Absent) =>
            /\ last'.result = "True"
            /\ blobs' = blobs
            /\ ledger' = ledger
            /\ HasInfo(last'.id) =>
                  LET run == RestoreRun(ledger'[last'.id].info, LiveNow', blobs', {})
                  IN /\ run = RestoreRun(ledger[last'.id].info, LiveNow, blobs, {})
                     /\ \A p \in FilePaths :
                           EntriesOf(ledger'[last'.id].info, p) = {} =>
                              run.L.files[p] = Absent
       /\ (last'.op = "backup_directory" /\ \A d \in DirPaths : ~dirs[d].exists) =>
            /\ last'.result = "True"
            /\ blobs' = blobs
            /\ ledger' = ledger
            /\ HasInfo(last'.id) =>
                  LET run == RestoreRun(ledger'[last'.id].info, LiveNow', blobs', {})
                  IN /\ run = RestoreRun(ledger[last'.id].info, LiveNow, blobs, {})
                     /\ \A d \in DirPaths :
                           EntriesOf(ledger'[last'.id].info, d) = {} =>
                              ~run.L.dirs[d].exists]_vars

\* a capture of a missing file into a document that holds entries
C13_Witness ==
    /\ last.op = "backup_file"
    /\ \A p \in FilePaths : files[p] = Absent
    /\ HasInfo(last.id)
    /\ EntryCount(ledger[last.id].info) > 0

\* C14: backup_registry_key on a registry key that does not exist returns
\* True and appends no entry, so that the caller is not blocked and a restore
\* afterwards has nothing to do for the key.
C14_MissingKeyCapture ==
    [][(last'.op = "backup_registry_key" /\ \A key \in RegKeys : reg[key] = Absent) =>
          /\ last'.result = "True"
          /\ ledger' = ledger
          /\ blobs' = blobs]_vars

\* C15: within one backup_id, the entries of two different original paths
\* point to two different blobs.
C15_DistinctBlobPaths ==
    \A id \in IdSpace :
       IsDoc(ledger[id]) =>
          \A i, j \in DOMAIN ledger[id].info.file_backups.v :
             LET a == ledger[id].info.file_backups.v[i].v[1]
                 b == ledger[id].info.file_backups.v[j].v[1]
             IN a.original_path # b.original_path => a.backup_path # b.backup_path

\* C16: file round trip.  After backup_file on an existing file, whatever the
\* file is changed to, deletion included, a restore_operation of the backup
\* whose copy does not fail leaves the file at the path with the content it
\* had when captured, and reports the entry restored.
C16_FileRoundTrip ==
    [][/\ (last'.op = "backup_file" /\ last'.wrote = "ok") =>
            \A p \in FilePaths :
               files[p] # Absent =>
                  \A c \in FileContents \cup {Absent} :
                     LET run == RestoreRun(ledger'[last'.id].info,
                                           [LiveNow EXCEPT !.files[p] = c], blobs', {})
                         n == Len(ledger'[last'.id].info.file_backups.v)
                     IN /\ run.L.files[p] = files[p]
                        /\ \E k \in DOMAIN run.att :
                              /\ run.att[k].section = "file"
                              /\ run.att[k].i = n
                              /\ run.att[k].ok
       /\ (IsRestore(last') /\ HasInfo(last'.id)) =>
            \A i \in DOMAIN ledger[last'.id].info.file_backups.v :
               LET e == ledger[last'.id].info.file_backups.v[i].v[1]
               IN (/\ e.type = "file"
                   /\ e.backup_path \in DOMAIN blobs
                   /\ <<"file", i>> \notin last'.osfail) =>
                      /\ files'[e.original_path] = blobs[e.backup_path].content
                      /\ files'[e.original_path] # Absent
                      /\ \E k \in DOMAIN last'.attempts :
                            /\ last'.attempts[k].section = "file"
                            /\ last'.attempts[k].i = i
                            /\ last'.attempts[k].ok]_vars

\* a restore that put back the content of a file captured after the file
\* had been rewritten
C16_Witness ==
    /\ IsRestore(last)
    /\ HasInfo(last.id)
    /\ \E i \in DOMAIN ledger[last.id].info.file_backups.v :
          LET e == ledger[last.id].info.file_backups.v[i].v[1]
          IN /\ e.type = "file"
             /\ e.backup_path \in DOMAIN blobs
             /\ blobs[e.backup_path].content = 2
             /\ files[e.original_path] = 2
             /\ \E k \in DOMAIN last.attempts :
                   last.attempts[k].section = "file" /\ last.attempts[k].i = i
                      /\ last.attempts[k].ok

\* C17: directory round trip.  After backup_directory on an existing
\* directory, whatever is then deleted, changed or added under it, the
\* directory itself included, a restore_operation of the backup whose
\* extraction does not fail leaves under the path the tree that was captured:
\* the same relative paths with the same content, and nothing else.
C17_DirectoryRoundTrip ==
    [][(last'.op = "backup_directory" /\ last'.wrote = "ok") =>
          \A d \in DirPaths :
             dirs[d].exists =>
                \A later \in [exists : BOOLEAN, tree : [Children -> TreeValues]] :
                   RestoreRun(ledger'[last'.id].info,
                              [LiveNow EXCEPT !.dirs[d] = later], blobs', {}).L.dirs[d]
                      = [exists |-> TRUE, tree |-> dirs[d].tree]]_vars

\* C18: service round trip.  A restore_operation that returns True leaves
\* every service recorded as RUNNING, STOPPED or PAUSED in the recorded state;
\* a service recorded as UNKNOWN is left as it is and counts as restored.
C18_ServiceRoundTrip ==
    [][(IsRestore(last') /\ HasInfo(last'.id)) =>
          \A i \in DOMAIN ledger[last'.id].info.service_states.v :
             LET item == ledger[last'.id].info.service_states.v[i]
                 S == item.val.v[1].state
             IN /\ (last'.result = "True" /\ S # "UNKNOWN") => svc'[item.key] = S
                /\ S = "UNKNOWN" =>
                      /\ svc'[item.key] = svc[item.key]
                      /\ \E k \in DOMAIN last'.attempts :
                            /\ last'.attempts[k].section = "service"
                            /\ last'.attempts[k].i = i
                            /\ last'.attempts[k].ok]_vars

\* C19: the power-plan restore reactivates the plan recorded at capture time
\* whenever powercfg can activate it; the default plan becomes active only
\* when the recorded plan cannot be reactivated.
C19_RecordedPlanReactivated ==
    [][(/\ IsRestore(last')
        /\ HasInfo(last'.id)
        /\ ledger[last'.id].info.power_settings.t = "dict"
        /\ Truthy(ledger[last'.id].info.power_settings)
        /\ last'.osfail = {}) =>
            power' = ledger[last'.id].info.power_settings.v[1].output]_vars

\* C20: startup-item round trip.  After backup_startup_items, whatever
\* auto-run entries are removed or changed, a restore_operation without OS
\* failure writes every recorded entry back under its name with its recorded
\* value and reports the startup section restored.
C20_StartupRoundTrip ==
    [][(/\ IsRestore(last')
        /\ HasInfo(last'.id)
        /\ Truthy(ledger[last'.id].info.startup_items)
        /\ last'.osfail = {}) =>
            /\ \A el \in StartupRecorded(ledger[last'.id].info) :
                  startup'[el.v[1].name] = el.v[1].value
            /\ \E k \in DOMAIN last'.attempts :
                  last'.attempts[k].section = "startup" /\ last'.attempts[k].ok]_vars

\* the document with one more registry entry / one more file entry
WithRegistry(info, key, ts) ==
    UpdatedInfo(info, "registry_backups",
                Entry([subkey |-> key, backup_path |-> RegBlobPath(key, ts)]), "")
WithFile(info, id, p) ==
    UpdatedInfo(info, "file_backups",
                Entry([original_path |-> p, backup_path |-> FileBlobPath(id, p),
                       type |-> "file"]), "")

\* C21: a ledger document accumulates its sections independently.  A capture
\* of a registry key appends one entry to registry_backups and leaves
\* file_backups as it was, a capture of a file appends one entry to
\* file_backups and leaves registry_backups as it was; the document reached
\* by capturing a key and then a file is the document reached by capturing
\* the file and then the key; and restore_operation attempts every entry of
\* both sections.
C21_IndependentSections ==
    [][/\ (last'.op = "backup_registry_key" /\ last'.wrote = "ok" /\ HasInfo(last'.id)) =>
            LET old == ledger[last'.id].info
                new == ledger'[last'.id].info
                run == RestoreRun(new, LiveNow, blobs', {})
            IN /\ new.file_backups = old.file_backups
               /\ Len(new.registry_backups.v) = Len(old.registry_backups.v) + 1
               /\ \A i \in DOMAIN old.registry_backups.v :
                     new.registry_backups.v[i] = old.registry_backups.v[i]
               /\ \A p \in FilePaths :
                     WithFile(new, last'.id, p)
                        = WithRegistry(WithFile(old, last'.id, p),
                                       new.registry_backups.v[Len(new.registry_backups.v)].v[1].subkey,
                                       clock)
               /\ \A i \in DOMAIN new.registry_backups.v :
                     \E k \in DOMAIN run.att :
                        run.att[k].section = "registry" /\ run.att[k].i = i
               /\ \A i \in DOMAIN new.file_backups.v :
                     \E k \in DOMAIN run.att :
                        run.att[k].section = "file" /\ run.att[k].i = i
       /\ (last'.op = "backup_file" /\ last'.wrote = "ok" /\ HasInfo(last'.id)) =>
            LET old == ledger[last'.id].info
                new == ledger'[last'.id].info
                run == RestoreRun(new, LiveNow, blobs', {})
            IN /\ new.registry_backups = old.registry_backups
               /\ Len(new.file_backups.v) = Len(old.file_backups.v) + 1
               /\ \A i \in DOMAIN old.file_backups.v :
                     new.file_backups.v[i] = old.file_backups.v[i]
               /\ \A key \in RegKeys :
                     WithRegistry(new, key, clock)
                        = WithFile(WithRegistry(old, key, clock), last'.id,
                                   new.file_backups.v[Len(new.file_backups.v)].v[1].original_path)
               /\ \A i \in DOMAIN new.registry_backups.v :
                     \E k \in DOMAIN run.att :
                        run.att[k].section = "registry" /\ run.att[k].i = i
               /\ \A i \in DOMAIN new.file_backups.v :
                     \E k \in DOMAIN run.att :
                        run.att[k].section = "file" /\ run.att[k].i = i
       /\ (IsRestore(last') /\ HasInfo(last'.id)) =>
            /\ \A i \in DOMAIN ledger[last'.id].info.registry_backups.v :
                  Attempted(last', "registry", i)
            /\ \A i \in DOMAIN ledger[last'.id].info.file_backups.v :
                  Attempted(last', "file", i)]_vars

\* a restore that attempted a registry entry and a file entry of one document
C21_Witness ==
    /\ IsRestore(last)
    /\ HasInfo(last.id)
    /\ Len(ledger[last.id].info.registry_backups.v) = 1
    /\ Len(ledger[last.id].info.file_backups.v) = 1
    /\ Attempted(last, "registry", 1)
    /\ Attempted(last, "file", 1)

\* C22: get_restore_preview has no side effects.  A call changes no ledger
\* file, no blob and no live resource, and the clock is not its to move; it
\* returns None when the backup_id has no document that loads, and a preview
\* otherwise.
C22_PreviewNoSideEffects ==
    [][last'.op = "get_restore_preview" =>
          /\ ledger' = ledger
          /\ blobs' = blobs
          /\ live' = live
          /\ clock' = clock
          /\ ~HasInfo(last'.id) => last'.result = "None" /\ last'.attempts = <<>>
          /\ HasInfo(last'.id) => last'.result = "preview"]_vars

\* a preview, with actions, of a document written before the current second
C22_Witness ==
    /\ last.op = "get_restore_preview"
    /\ last.result = "preview"
    /\ Len(last.attempts) > 0
    /\ ledger[last.id].mtime < clock

\* the section kinds of a sequence of restore steps or preview actions
Kinds(att) == [k \in DOMAIN att |-> att[k].section]
\* the entry each step or action is about (the power plan is one entry,
\* whichever powercfg call ended the step)
Targets(att) ==
    [k \in DOMAIN att |->
        IF att[k].section = "power" THEN <<"power", 1>>
        ELSE <<att[k].section, att[k].i>>]

\* C26: get_restore_preview makes the traversal of restore_operation.  For
\* every document, the preview's actions name, in order, the entries whose
\* restore helper restore_operation invokes, whatever OS calls fail: one
\* action per registry entry, per file/directory entry and per service, one
\* for the power plan and one for the startup section exactly when
\* restore_operation restores that section.
C26_PreviewSameTraversal ==
    [][/\ (last'.op = "get_restore_preview" /\ last'.result = "preview") =>
            \A osfail \in SUBSET FailPoints(ledger[last'.id].info) :
               LET run == RestoreRun(ledger[last'.id].info, LiveNow, blobs, osfail)
               IN /\ Kinds(last'.attempts) = Kinds(run.att)
                  /\ Targets(last'.attempts) = Targets(run.att)
       /\ (IsRestore(last') /\ HasInfo(last'.id)) =>
            /\ Kinds(PreviewActions(ledger[last'.id].info)) = Kinds(last'.attempts)
            /\ Targets(PreviewActions(ledger[last'.id].info)) = Targets(last'.attempts)]_vars

\* a preview of a power plan kept as a list and of an entry of another section
C26_Witness ==
    /\ last.op = "get_restore_preview"
    /\ last.result = "preview"
    /\ ledger[last.id].info.power_settings.t = "list"
    /\ Len(last.attempts) = 2
    /\ last.attempts[2].section = "power"

\* C25: PRUNED is terminal.  Once cleanup_old_backups has removed the ledger
\* file of a backup_id, no later call (a capture made with that backup_id, a
\* restore, a preview, a listing) makes get_backup_info return a record for
\* it again.
C25_PrunedIsTerminal == \A id \in pruned : ~HasInfo(id)

\* the document a call of _update_backup_info loaded ({} when there was no file)
LoadedInfo(call) == IF IsDoc(call.loaded) THEN call.loaded.info ELSE EmptyInfo

\* C27: the ledger append is an unlocked read-modify-write.  The save of a
\* call writes the document the call loaded plus its own entry, so every
\* entry another call saved in between (both had loaded before either saved)
\* is missing from the document written last: a lost update.  When no other
\* save came in between (the appends are serialized), the save leaves every
\* entry that was there, in order, followed by the new one.
C27_UnlockedReadModifyWrite ==
    [][\A c \in Callers :
          (pending[c].busy /\ ~pending'[c].busy) =>
             LET id == pending[c].id
                 sec == pending[c].section
                 old == LoadedInfo(pending[c])
                 now == ledger[id].info
                 new == ledger'[id].info
             IN /\ new[sec].v = Append(old[sec].v, pending[c].data)
                /\ \A s \in SectionKeys \ {sec} : new[s] = old[s]
                /\ \A s \in SectionKeys :
                      Len(now[s].v) > Len(old[s].v) =>
                         /\ Len(new[s].v) <= Len(now[s].v)
                         /\ s # sec => Len(new[s].v) < Len(now[s].v)
                /\ pending[c].loaded = ledger[id] =>
                      /\ new[sec].v = Append(now[sec].v, pending[c].data)
                      /\ \A s \in SectionKeys \ {sec} : new[s] = now[s]]_vars

\* two captures into one document have ended, both blobs are on disk, and
\* the document holds the entry of one of them only
C27_Witness ==
    /\ \A c \in Callers : ~pending[c].busy
    /\ \E id \in IdSpace :
          /\ HasInfo(id)
          /\ EntryCount(ledger[id].info) = 1
          /\ \E p \in FilePaths : FileBlobPath(id, p) \in DOMAIN blobs
          /\ \E key \in RegKeys, ts \in Times : RegBlobPath(key, ts) \in DOMAIN blobs

\* C28: the blob of a recorded registry snapshot is never overwritten.  No
\* later registry capture and no automatic backup of write_value or
\* delete_value, in the same second or another, writes over the blob a
\* registry entry of a document refers to: as long as the blob is on disk it
\* holds the key state that was captured when the entry was appended.
C28_RegistryBlobNeverOverwritten ==
    [][\A id \in IdSpace :
          HasInfo(id) =>
             \A i \in DOMAIN ledger[id].info.registry_backups.v :
                LET q == ledger[id].info.registry_backups.v[i].v[1].backup_path
                IN (q \in DOMAIN blobs /\ q \in DOMAIN blobs') =>
                      blobs'[q].content = blobs[q].content]_vars

\* C23: at most one optimization operation executes at any time.  No two
\* workers are running their operation at once, and a request made while a
\* worker runs its operation starts no worker and changes neither the
\* status nor the backup_id of the optimization.
C23_OneOperationAtATime ==
    Cardinality({w \in WorkerIds : workers[w].state = "running"}) <= 1

\* the step in which worker w runs its operation to the end
Ran(w, operation) ==
    /\ workers[w].state = "running"
    /\ workers[w].operation = operation
    /\ workers'[w].state = "emitted"
Invoked(calls, name) == \E k \in DOMAIN calls : calls[k].name = name

C29_StaysRevertible ==
    [][\A w \in WorkerIds :
          (/\ can_revert
           /\ \/ Ran(w, "simulate")
              \/ Ran(w, "revert") /\ ~workers'[w].success)
             => can_revert']_vars

\* the restore step an OS call belongs to: both powercfg calls are of the
\* one power plan entry
StepOfCall(att, call) ==
    {k \in DOMAIN att : /\ att[k].section = call[1]
                        /\ call[1] = "power" \/ att[k].i = call[2]}

\* C30: restore_operation always terminates.  Every call that has begun its
\* traversal returns True or False, each OS call returning or timing out;
\* the call has then taken every entry of the document, and an entry one of
\* whose OS calls timed out is counted as failed: its step reports failure
\* and the result is False.
C30_RestoreTerminates ==
    /\ restoring.active ~> (~restoring.active /\ IsRestore(last))
    /\ [](IsRestore(last) /\ HasInfo(last.id) /\ ~restoring.active /\ restoring.id = last.id
            => /\ Len(last.attempts) = Len(Traversal(restoring.info))
               /\ \A call \in last.osfail :
                     /\ \E k \in StepOfCall(last.attempts, call) : ~last.attempts[k].ok
                     /\ last.result = "False")

====
